---- MODULE Spec2Model ----
(***************************************************************************)
(* Model of scripts/convert_pdfs_to_text.py: the batch pipeline that lists *)
(* the PDFs of an upstream repository, downloads each into ./pdfs and      *)
(* converts it into ./texts/<stem>.txt with pdftotext, falling back to     *)
(* OCR.  The two directories persist between runs of the script; the       *)
(* model runs the script up to MaxRuns times over the same upstream tree.  *)
(*                                                                         *)
(* The outside world (the listing call, each raw fetch, pdftotext, the OCR *)
(* libraries) is fixed for a whole behaviour: what it answers is chosen    *)
(* the first time the script asks and remembered in listB, dlB, hasPdfto-  *)
(* text, primB, hasOcr and ocrB, so that asking again gives the same       *)
(* answer.                                                                 *)
(***************************************************************************)
EXTENDS Integers, Sequences, FiniteSets, TLC

\* ---------------------------------------------------------------- bounds
MaxTree == 2      \* entries of the upstream tree
MaxPages == 2     \* pages of one PDF as rasterized by pdf2image
MaxRuns == 2      \* runs of the script over the same directories

\* ------------------------------------------------------- the upstream tree
\* A path is a sequence of components [stem, suffix]; the last one is the
\* file name.  Suffixes keep their case, as the file system does.
Comp(s, x) == [stem |-> s, suffix |-> x]

\* The entries an upstream tree is made of, in the order the listing call
\* returns them (git sorts a tree by path; paths are unique in a tree).
\* pages is the number of pages of the document a blob holds.
Items ==
  << [type |-> "blob", path |-> <<Comp("a", ".pdf")>>, pages |-> MaxPages],
     [type |-> "blob", path |-> <<Comp("a", ".PDF")>>, pages |-> 1],
     [type |-> "blob", path |-> <<Comp("b", ".pdf")>>, pages |-> 1],
     [type |-> "blob", path |-> <<Comp("notes", ".txt")>>, pages |-> 0],
     [type |-> "tree", path |-> <<Comp("x", ".pdf")>>, pages |-> 0],
     [type |-> "blob", path |-> <<Comp("x", ".pdf"), Comp("a", ".pdf")>>,
      pages |-> 1] >>

ItemIds == 1..Len(Items)

RECURSIVE Increasing(_, _)
\* the strictly increasing sequences of item ids of length n, all > lo
Increasing(n, lo) ==
  IF n = 0 THEN { <<>> }
  ELSE UNION { { <<k>> \o s : s \in Increasing(n - 1, k) } :
               k \in { j \in ItemIds : j > lo } }

Trees == UNION { Increasing(n, 0) : n \in 0..MaxTree }

\* str.lower() on a suffix
Lower(x) == IF x = ".PDF" THEN ".pdf" ELSE x

\* Path(p).name
PathName(p) == p[Len(p)]

\* item['path'].lower().endswith('.pdf')
EndsWithPdf(p) == Lower(PathName(p).suffix) = ".pdf"

\* the entries the filter of line 70 keeps
PdfIds ==
  { k \in ItemIds : Items[k].type = "blob" /\ EndsWithPdf(Items[k].path) }

\* the raw.githubusercontent.com URL of a path; what it serves is the blob
\* of that tree entry
RawUrl(k) == [raw |-> Items[k].path]
Remote(url) == CHOOSE k \in ItemIds : Items[k].path = url.raw

RECURSIVE ListPdfs(_)
\* lines 68-77: the descriptors of the blob entries whose path ends in .pdf
ListPdfs(t) ==
  IF t = <<>> THEN <<>>
  ELSE LET item == Items[Head(t)]
       IN  IF item.type = "blob" /\ EndsWithPdf(item.path)
           THEN << [name |-> PathName(item.path),
                    url |-> RawUrl(Head(t)),
                    path |-> item.path] >> \o ListPdfs(Tail(t))
           ELSE ListPdfs(Tail(t))

\* ------------------------------------------------------------ directories
PdfNames == { PathName(Items[k].path) : k \in PdfIds }
\* an output path that keeps the suffix of the PDF
TextPath_keeps_suffix(pdf_path) == Comp(pdf_path.stem, pdf_path.suffix)

\* TEXTS_DIR / f"{pdf_path.stem}.txt"
TextPath(pdf_path) == Comp(pdf_path.stem, ".txt")
TextNames == { TextPath(n) : n \in PdfNames }

\* a file of ./pdfs: which blob it was fetched from and whether all of it
\* arrived
NoPdf == [exists |-> FALSE, src |-> 0, complete |-> FALSE]
\* a file of ./texts: its content, a sequence of tokens
NoText == [exists |-> FALSE, data |-> <<>>]
File(d) == [exists |-> TRUE, data |-> d]
Size(f) == Len(f.data)

\* the content of a PDF on disk
Content(f) == [src |-> f.src, complete |-> f.complete]
Contents == [src : PdfIds, complete : BOOLEAN]

\* tokens of a text file: a line of text written by pdftotext, or by OCR a
\* page marker '--- Page i ---' (marker = i) or the text recognized on page
\* i (marker = 0)
Tok(by, c, m, p) == [by |-> by, src |-> c.src, complete |-> c.complete,
                     marker |-> m, page |-> p]


\* ------------------------------------------------- what the world answers
\* requests.get of the listing: a 2xx answer, or a RequestException
\* (connection error, or raise_for_status on a non-success status)
ListBehaviours == { "ok", "RequestException" }

\* requests.get of one raw URL: the whole body arrives; a RequestException
\* before the local file is opened (connection error, non-success status);
\* or a RequestException out of iter_content, after open() created the file
DownloadBehaviours == { "ok", "RequestException", "stream_RequestException" }

\* one run of pdftotext on a PDF when the binary is there: how subprocess.run
\* ends and what pdftotext has put at the output path by then
PdftotextOutcomes ==
  { [status |-> "rc0", out |-> "full"],
    [status |-> "rc0", out |-> "empty"],
    [status |-> "rcNonZero", out |-> "none"],
    [status |-> "TimeoutExpired", out |-> "partial"] }
UnsetPrim == [status |-> "unset", out |-> "none"]

\* one OCR pass over a PDF c when the libraries are there: pages = -1 when
\* convert_from_path raises, else the number of images it returns (one per
\* page, or none at all); failPage is the page on which image_to_string
\* raises (0: none); write is how open()/f.write() end
OcrOutcomes(c) ==
  LET n == Items[c.src].pages
  IN  { [pages |-> -1, failPage |-> 0, write |-> "ok"],
        [pages |-> 0, failPage |-> 0, write |-> "ok"] }
      \cup { [pages |-> n, failPage |-> f, write |-> "ok"] : f \in 1..n }
      \cup { [pages |-> n, failPage |-> 0, write |-> w] :
             w \in { "ok", "open_OSError", "write_OSError" } }
UnsetOcr == [pages |-> -2, failPage |-> 0, write |-> "ok"]

\* what the git commands of commit_texts_if_requested do
GitBehaviours ==
  { "FileNotFoundError", "config_fails", "add_fails", "no_changes",
    "commit_fails", "push_fails", "pushed" }

\* ------------------------------------------------------------------ state
VARIABLES
  tree,          \* the upstream tree: the item ids the listing call returns
  pdfsDir,       \* ./pdfs: file name -> file
  textsDir,      \* ./texts: file name -> file
  listB, dlB, hasPdftotext, primB, hasOcr, ocrB,   \* the world, once asked
  COMMIT_OUTPUTS, GITHUB_TOKEN,   \* lines 34-35, once main looks at them
  pc,            \* where the script is; "idle" when no process runs
  pdfs,          \* main: the descriptors listed
  i,             \* main: the index of the descriptor being processed
  successful_conversions, failed_conversions,
  pdf_path,      \* the local PDF handed to convert_pdf_to_text
  images,        \* convert_pdf_with_ocr: number of rasterized pages
  full_text,     \* convert_pdf_with_ocr: the blocks recognized so far
  \* history of the current run
  run,           \* number of runs started
  exitStatus,    \* exit status of the last finished run (-1: none yet)
  prev,          \* the counts of the run before the current one
  fetches,       \* per descriptor: raw fetches
  primCalls,     \* per descriptor: pdftotext invocations
  ocrCalls,      \* per descriptor: convert_pdf_with_ocr invocations
  outcomes,      \* per processed descriptor: how it was recorded
  commitCalls,   \* invocations of commit_texts_if_requested
  gitOps         \* git commands run by commit_texts_if_requested

world == << listB, dlB, hasPdftotext, primB, hasOcr, ocrB >>
config == << COMMIT_OUTPUTS, GITHUB_TOKEN >>
ocrLocals == << images, full_text >>
counters == << successful_conversions, failed_conversions >>
calls == << fetches, primCalls, ocrCalls >>
vars == << tree, pdfsDir, textsDir, world, config, pc, pdfs, i, counters,
           pdf_path, ocrLocals, run, exitStatus, prev, calls, outcomes,
           commitCalls, gitOps >>

NoPath == Comp("", "")
NoPrev == [successful |-> -1, failed |-> -1, total |-> -1, outcomes |-> <<>>]

Init ==
  /\ tree \in Trees
  /\ pdfsDir = [n \in PdfNames |-> NoPdf]
  /\ textsDir = [n \in TextNames |-> NoText]
  /\ listB = "unset"
  /\ dlB = [k \in PdfIds |-> "unset"]
  /\ hasPdftotext = "unset"
  /\ primB = [c \in Contents |-> UnsetPrim]
  /\ hasOcr = "unset"
  /\ ocrB = [c \in Contents |-> UnsetOcr]
  /\ COMMIT_OUTPUTS = FALSE
  /\ GITHUB_TOKEN = FALSE
  /\ pc = "idle"
  /\ pdfs = <<>>
  /\ i = 0
  /\ successful_conversions = 0
  /\ failed_conversions = 0
  /\ pdf_path = NoPath
  /\ images = 0
  /\ full_text = <<>>
  /\ run = 0
  /\ exitStatus = -1
  /\ prev = NoPrev
  /\ fetches = <<>>
  /\ primCalls = <<>>
  /\ ocrCalls = <<>>
  /\ outcomes = <<>>
  /\ commitCalls = 0
  /\ gitOps = <<>>

\* the world answers b: either it was never asked, or it answered b before
Answers(memo, b) == memo = "unset" \/ memo = b

Zeros(n) == [k \in 1..n |-> 0]
Bump(f, k) == [f EXCEPT ![k] = @ + 1]

\* a listing that hands on what it has when the request raised
list_pdfs_from_repo_keeps(b) == ListPdfs(tree)

\* lines 49-84: the descriptors, or [] when the request raised
list_pdfs_from_repo(b) == IF b = "ok" THEN ListPdfs(tree) ELSE <<>>

\* line 289: sys.exit(1)
EmptyListExit == 1

\* lines 271-296, with the module's lines 31-35: a process starts, reads its
\* environment, makes sure of the directories, lists, and exits with 1 when
\* the list is empty
Main ==
  /\ pc = "idle"
  /\ run < MaxRuns
  /\ run' = run + 1
  /\ COMMIT_OUTPUTS' = FALSE
  /\ GITHUB_TOKEN' = FALSE
  /\ prev' = IF run = 0 THEN NoPrev
             ELSE [successful |-> successful_conversions,
                   failed |-> failed_conversions,
                   total |-> Len(pdfs),
                   outcomes |-> outcomes]
  /\ \E b \in ListBehaviours :
       /\ Answers(listB, b)
       /\ listB' = b
       /\ pdfs' = list_pdfs_from_repo(b)
  /\ IF pdfs' = <<>>
     THEN /\ pc' = "idle"
          /\ exitStatus' = EmptyListExit
     ELSE /\ pc' = "loop"
          /\ exitStatus' = -1
  /\ i' = 0
  /\ successful_conversions' = 0
  /\ failed_conversions' = 0
  /\ fetches' = Zeros(Len(pdfs'))
  /\ primCalls' = Zeros(Len(pdfs'))
  /\ ocrCalls' = Zeros(Len(pdfs'))
  /\ outcomes' = <<>>
  /\ commitCalls' = 0
  /\ gitOps' = <<>>
  /\ pdf_path' = NoPath
  /\ UNCHANGED << tree, pdfsDir, textsDir, dlB, hasPdftotext, primB, hasOcr,
                  ocrB, ocrLocals >>

\* a Record that does not count a failed download
Record_uncounted_download(cur, ok, how) ==
  /\ successful_conversions' =
       IF ok THEN successful_conversions + 1 ELSE successful_conversions
  /\ failed_conversions' =
       IF ok \/ how = "download" THEN failed_conversions
       ELSE failed_conversions + 1
  /\ outcomes' = Append(outcomes, [ok |-> ok, how |-> how])
  /\ pc' = IF cur < Len(pdfs) THEN "loop" ELSE "summary"

\* a Record that leaves the loop after a failed download
Record_break(cur, ok, how) ==
  /\ successful_conversions' =
       IF ok THEN successful_conversions + 1 ELSE successful_conversions
  /\ failed_conversions' =
       IF ok THEN failed_conversions ELSE failed_conversions + 1
  /\ outcomes' = Append(outcomes, [ok |-> ok, how |-> how])
  /\ pc' = IF cur < Len(pdfs) /\ how # "download" THEN "loop" ELSE "summary"

\* lines 303-305 and 309-312: the descriptor cur is counted once, and the
\* loop goes on to the next one, or to the summary after the last
Record(cur, ok, how) ==
  /\ successful_conversions' =
       IF ok THEN successful_conversions + 1 ELSE successful_conversions
  /\ failed_conversions' =
       IF ok THEN failed_conversions ELSE failed_conversions + 1
  /\ outcomes' = Append(outcomes, [ok |-> ok, how |-> how])
  /\ pc' = IF cur < Len(pdfs) THEN "loop" ELSE "summary"

\* an existence test that wants the whole file
AlreadyDownloaded_complete(f) == f.exists /\ f.complete

\* line 94: output_path.exists()
AlreadyDownloaded(f) == f.exists

\* lines 298-305 with download_pdf, lines 87-130: the next descriptor; its
\* file in ./pdfs is taken as it is when there is one, else fetched
DownloadPdf ==
  /\ pc = "loop"
  /\ i' = i + 1
  /\ LET pdf_info == pdfs[i + 1]
         output_path == pdf_info.name
     IN  IF AlreadyDownloaded(pdfsDir[output_path])
         THEN /\ pdf_path' = output_path
              /\ pc' = "convert"
              /\ UNCHANGED << pdfsDir, dlB, fetches, counters, outcomes >>
         ELSE \E b \in DownloadBehaviours :
                /\ Answers(dlB[Remote(pdf_info.url)], b)
                /\ dlB' = [dlB EXCEPT ![Remote(pdf_info.url)] = b]
                /\ fetches' = Bump(fetches, i + 1)
                /\ pdfsDir' =
                     IF b = "RequestException" THEN pdfsDir
                     ELSE [pdfsDir EXCEPT ![output_path] =
                             [exists |-> TRUE, src |-> Remote(pdf_info.url),
                              complete |-> (b = "ok")]]
                /\ IF b = "ok"
                   THEN /\ pdf_path' = output_path
                        /\ pc' = "convert"
                        /\ UNCHANGED << counters, outcomes >>
                   ELSE /\ pdf_path' = NoPath
                        /\ Record(i + 1, FALSE, "download")
  /\ UNCHANGED << tree, textsDir, listB, hasPdftotext, primB, hasOcr, ocrB,
                  config, pdfs, ocrLocals, run, exitStatus, prev, primCalls,
                  ocrCalls,
                  commitCalls, gitOps >>

\* the file at the output path of the PDF being converted
text_path == TextPath(pdf_path)

\* a skip test that never skips
SkipRule_never(f) == FALSE

\* line 201: the skip test of convert_pdf_to_text
SkipRule(f) == f.exists

\* OCR tried first
FirstAttempt_ocr == "ocr"

\* lines 207-208: the extractor tried first
FirstAttempt == "pdftotext"

\* lines 194-205 (and 309-310 when it returns at once): the skip rule
ConvertPdfToText ==
  /\ pc = "convert"
  /\ IF SkipRule(textsDir[text_path])
     THEN Record(i, TRUE, "skipped")
     ELSE /\ pc' = FirstAttempt
          /\ UNCHANGED << counters, outcomes >>
  /\ UNCHANGED << tree, pdfsDir, textsDir, world, config, pdfs, i, pdf_path,
                  ocrLocals, run, exitStatus, prev, calls,
                  commitCalls, gitOps >>

\* what pdftotext -layout writes for a PDF: two lines for the whole of it,
\* the first of them when it is cut short
PdftotextText(c) ==
  << Tok("pdftotext", c, 0, 1), Tok("pdftotext", c, 0, 2) >>

\* the file pdftotext leaves at the output path
PdftotextLeaves(o, c, old) ==
  CASE o.out = "none" -> old
    [] o.out = "empty" -> File(<<>>)
    [] o.out = "partial" -> File(SubSeq(PdftotextText(c), 1, 1))
    [] o.out = "full" -> File(PdftotextText(c))

\* the test of line 145 with the return code inverted
PdftotextAccepted_inverted(o, f) ==
  /\ o.status \notin { "TimeoutExpired", "FileNotFoundError" }
  /\ o.status # "rc0"
  /\ f.exists
  /\ Size(f) > 0

\* lines 145-152: subprocess.run returned (no TimeoutExpired,
\* FileNotFoundError or other exception) and the test of line 145 holds
PdftotextAccepted(o, f) ==
  /\ o.status \notin { "TimeoutExpired", "FileNotFoundError" }
  /\ o.status = "rc0"
  /\ f.exists
  /\ Size(f) > 0

\* lines 216-221 (and 311-312) after convert_pdf_with_ocr returned None
OcrFailed ==
  /\ Record(i, FALSE, "none")

\* no fallback: the document fails with pdftotext
FallBackToOcr_gives_up == OcrFailed

\* lines 213-215: no result from pdftotext, convert_pdf_with_ocr is called
FallBackToOcr ==
  /\ pc' = "ocr"
  /\ UNCHANGED << counters, outcomes >>

\* lines 207-214 with convert_pdf_with_pdftotext, lines 133-152 (and 309-310
\* when it succeeds)
ConvertPdfWithPdftotext ==
  /\ pc = "pdftotext"
  /\ primCalls' = Bump(primCalls, i)
  /\ LET c == Content(pdfsDir[pdf_path])
     IN  \E has \in { "yes", "no" } :
           /\ Answers(hasPdftotext, has)
           /\ hasPdftotext' = has
           /\ \E o \in IF has = "yes" THEN PdftotextOutcomes
                       ELSE { [status |-> "FileNotFoundError",
                               out |-> "none"] } :
                /\ IF has = "yes"
                   THEN /\ primB[c] \in { UnsetPrim, o }
                        /\ primB' = [primB EXCEPT ![c] = o]
                   ELSE UNCHANGED primB
                /\ textsDir' =
                     [textsDir EXCEPT ![text_path] = PdftotextLeaves(o, c, @)]
                /\ IF PdftotextAccepted(o, textsDir'[text_path])
                   THEN Record(i, TRUE, "pdftotext")
                   ELSE FallBackToOcr
  /\ UNCHANGED << tree, pdfsDir, listB, dlB, hasOcr, ocrB, config, pdfs, i,
                  pdf_path, ocrLocals, run, exitStatus, prev, fetches,
                  ocrCalls,
                  commitCalls, gitOps >>

\* no test of the imports
OcrAvailable_unchecked(has) == TRUE

\* lines 157-163: both imports succeed (no ImportError)
OcrAvailable(has) == has = "yes"

\* lines 155-165 with line 215: convert_pdf_with_ocr is entered and imports
\* its libraries
OcrImport ==
  /\ pc = "ocr"
  /\ ocrCalls' = Bump(ocrCalls, i)
  /\ \E has \in { "yes", "no" } :
       /\ Answers(hasOcr, has)
       /\ hasOcr' = has
       /\ IF OcrAvailable(has)
          THEN /\ pc' = "ocr_raster"
               /\ UNCHANGED << counters, outcomes >>
          ELSE OcrFailed
  /\ UNCHANGED << tree, pdfsDir, textsDir, listB, dlB, hasPdftotext, primB,
                  ocrB, config, pdfs, i, pdf_path, ocrLocals, run,
                  exitStatus, prev, fetches, primCalls,
                  commitCalls, gitOps >>

\* lines 167-174: convert_from_path
OcrRasterize ==
  /\ pc = "ocr_raster"
  /\ LET c == Content(pdfsDir[pdf_path])
     IN  \E o \in OcrOutcomes(c) :
           /\ ocrB[c] \in { UnsetOcr, o }
           /\ ocrB' = [ocrB EXCEPT ![c] = o]
           /\ IF o.pages = -1
              THEN /\ OcrFailed
                   /\ UNCHANGED ocrLocals
              ELSE /\ images' = o.pages
                   /\ full_text' = <<>>
                   /\ pc' = "ocr_pages"
                   /\ UNCHANGED << counters, outcomes >>
  /\ UNCHANGED << tree, pdfsDir, textsDir, listB, dlB, hasPdftotext, primB,
                  hasOcr, config, pdfs, i, pdf_path, run, exitStatus, prev,
                  calls,
                  commitCalls, gitOps >>

\* a block with its marker after its text
Block_marker_last(c, p) == << Tok("ocr", c, 0, p), Tok("ocr", c, p, p) >>

\* line 178: the block of page p, its marker and then its text
Block(c, p) == << Tok("ocr", c, p, p), Tok("ocr", c, 0, p) >>

\* lines 175-178: one turn of the loop over the images
OcrRecognizePage ==
  /\ pc = "ocr_pages"
  /\ Len(full_text) < images
  /\ LET c == Content(pdfsDir[pdf_path])
         p == Len(full_text) + 1
     IN  IF ocrB[c].failPage = p
         THEN /\ OcrFailed
              /\ UNCHANGED ocrLocals
         ELSE /\ full_text' = Append(full_text, Block(c, p))
              /\ UNCHANGED << images, pc, counters, outcomes >>
  /\ UNCHANGED << tree, pdfsDir, textsDir, world, config, pdfs, i, pdf_path,
                  run, exitStatus, prev, calls,
                  commitCalls, gitOps >>

RECURSIVE Join(_)
\* '\n'.join(full_text)
Join(blocks) ==
  IF blocks = <<>> THEN <<>> ELSE Head(blocks) \o Join(Tail(blocks))

\* lines 175-182: the text of a pass over all n images of the PDF c
OcrPass(c, n) == Join([p \in 1..n |-> Block(c, p)])

\* lines 181-182: the file open(text_path, 'w') and f.write leave
OcrLeaves(w, text, old) ==
  CASE w = "open_OSError" -> old
    [] w = "write_OSError" -> File(SubSeq(text, 1, 1))
    [] w = "ok" -> File(text)

\* lines 184-191: the write did not raise and the test of line 184 holds
OcrAccepted(w, f) ==
  /\ w = "ok"
  /\ f.exists
  /\ Size(f) > 0

\* lines 180-191 (and 216-221, 309-312): after the last page
OcrWrite ==
  /\ pc = "ocr_pages"
  /\ Len(full_text) = images
  /\ LET c == Content(pdfsDir[pdf_path])
         w == ocrB[c].write
     IN  /\ textsDir' =
              [textsDir EXCEPT ![text_path] = OcrLeaves(w, Join(full_text), @)]
         /\ IF OcrAccepted(w, textsDir'[text_path])
            THEN Record(i, TRUE, "ocr")
            ELSE OcrFailed
  /\ UNCHANGED << tree, pdfsDir, world, config, pdfs, i, pdf_path, ocrLocals,
                  run, exitStatus, prev, calls,
                  commitCalls, gitOps >>

\* a main that commits whatever the counts are
CommitGate_always == TRUE

\* line 323: the gate of the Persister
CommitGate == successful_conversions > 0

\* the git commands that ran before g stopped the sequence of lines 240-263
GitRan(g) ==
  CASE g = "FileNotFoundError" -> <<>>
    [] g = "config_fails" -> << "config" >>
    [] g = "add_fails" -> << "config", "config", "add" >>
    [] g = "no_changes" -> << "config", "config", "add", "diff" >>
    [] g = "commit_fails" -> << "config", "config", "add", "diff", "commit" >>
    [] g = "push_fails" ->
         << "config", "config", "add", "diff", "commit", "push" >>
    [] g = "pushed" ->
         << "config", "config", "add", "diff", "commit", "push", "pushed" >>

\* lines 267-268: CalledProcessError is caught; the FileNotFoundError that
\* subprocess.run raises when there is no git is not, and leaves main
Escapes(g) == g = "FileNotFoundError"

\* lines 224-268: commit_texts_if_requested; it leaves main (TRUE) or
\* returns (FALSE)
CommitTextsIfRequested(left) ==
  IF ~COMMIT_OUTPUTS' \/ ~GITHUB_TOKEN'
  THEN /\ gitOps' = <<>>
       /\ left = FALSE
  ELSE \E g \in GitBehaviours :
         /\ gitOps' = GitRan(g)
         /\ left = Escapes(g)

\* lines 326-330: the exit status of a main that reaches its end
ExitCode == IF failed_conversions > 0 THEN 1 ELSE 0

\* lines 314-330: the summary, the commit when something was converted, and
\* the exit status; an exception that leaves main ends the process with
\* status 1.  COMMIT_OUTPUTS and GITHUB_TOKEN (lines 34-35, read from the
\* environment as the process starts) are drawn here, where main first
\* depends on them, GITHUB_TOKEN when the test of line 232 is reached
Finish ==
  /\ pc = "summary"
  /\ pc' = "idle"
  /\ IF CommitGate
     THEN /\ commitCalls' = commitCalls + 1
          /\ COMMIT_OUTPUTS' \in BOOLEAN
          /\ GITHUB_TOKEN' \in IF COMMIT_OUTPUTS' THEN BOOLEAN ELSE { FALSE }
          /\ \E left \in BOOLEAN :
               /\ CommitTextsIfRequested(left)
               /\ exitStatus' = IF left THEN 1 ELSE ExitCode
     ELSE /\ exitStatus' = ExitCode
          /\ UNCHANGED << config, commitCalls, gitOps >>
  /\ UNCHANGED << tree, pdfsDir, textsDir, world, pdfs, i, counters,
                  pdf_path, ocrLocals, run, prev, calls, outcomes >>

Next ==
  \/ Main
  \/ DownloadPdf
  \/ ConvertPdfToText
  \/ ConvertPdfWithPdftotext
  \/ OcrImport
  \/ OcrRasterize
  \/ OcrRecognizePage
  \/ OcrWrite
  \/ Finish

Spec == Init /\ [][Next]_vars

\* ------------------------------------------------------------------ claims
Done == 1..Len(outcomes)                  \* the descriptors recorded so far
InRun == pc # "idle"
Finished == pc = "idle" /\ run >= 1       \* the last run started has ended
TextOf(k) == textsDir[TextPath(pdfs[k].name)]
NonEmpty(f) == f.exists /\ Size(f) > 0
NoExtractorCalls == \A k \in DOMAIN primCalls : primCalls[k] = 0 /\ ocrCalls[k] = 0

\* what pdftotext did on descriptor k, given that it was invoked on it
PrimaryOutcomeOf(k) ==
  IF hasPdftotext = "no" THEN [status |-> "FileNotFoundError", out |-> "none"]
  ELSE primB[Content(pdfsDir[pdfs[k].name])]
\* the success criterion: completed without error, output exists, size > 0
MeetsCriterion(o) == o.status = "rc0" /\ o.out \in { "partial", "full" }

\* C1 as stated: a second run over the same input and directories invokes
\* no extractor and reports the counts of the first run.
C1_SecondRunSameCounts ==
  run >= 2 =>
    /\ NoExtractorCalls
    /\ Finished =>
         /\ successful_conversions = prev.successful
         /\ failed_conversions = prev.failed
         /\ Len(pdfs) = prev.total

\* C1 (amended): in a run that follows another over the same input and
\* directories, a document the earlier run counted successful is counted
\* successful again by the skip rule with no extractor invoked on it, so
\* that the run ends with the same total and no fewer successes; and when
\* the earlier run had no failure, the later run invokes no extractor at
\* all and ends with the same counts.
C1_SuccessesAreKept ==
  run >= 2 =>
    /\ Len(pdfs) = prev.total
    /\ Finished => successful_conversions >= prev.successful
    /\ \A k \in 1..Len(prev.outcomes) :
         prev.outcomes[k].ok =>
           /\ k \in DOMAIN primCalls
           /\ primCalls[k] = 0
           /\ ocrCalls[k] = 0
           /\ k \in Done => outcomes[k] = [ok |-> TRUE, how |-> "skipped"]
    /\ prev.failed = 0 /\ prev.total > 0 => NoExtractorCalls
    /\ (Finished /\ prev.failed = 0 /\ prev.total > 0) =>
         /\ successful_conversions = prev.successful
         /\ failed_conversions = prev.failed
         /\ Len(pdfs) = prev.total

\* a second run has ended in which a document extracted by the first run was
\* skipped and a document failed by the first run was tried again
C1_Witness ==
  /\ Finished
  /\ run = 2
  /\ \E k \in Done :
       /\ prev.outcomes[k].how \in { "pdftotext", "ocr" }
       /\ outcomes[k].how = "skipped"
  /\ \E j \in Done :
       /\ ~prev.outcomes[j].ok
       /\ primCalls[j] = 1

\* C2: a document just recorded as failed by convert_pdf_to_text has no
\* non-empty file at its output path.
C2_FailedLeavesNoOutput ==
  (Len(outcomes) > 0 /\ i = Len(outcomes)) =>
    LET k == Len(outcomes)
    IN  (~outcomes[k].ok /\ outcomes[k].how = "none") => ~NonEmpty(TextOf(k))

\* C3: when convert_pdf_to_text is entered with a file at the output path,
\* its step invokes no extractor, leaves ./texts as it is and counts the
\* document as successful; and a document recorded as skipped has had no
\* extractor invoked on it in the run.
C3_SkipRule ==
  /\ [](\A k \in Done :
          outcomes[k].how = "skipped" =>
            outcomes[k].ok /\ primCalls[k] = 0 /\ ocrCalls[k] = 0)
  /\ [][(pc = "convert" /\ textsDir[text_path].exists) =>
          /\ textsDir' = textsDir
          /\ primCalls' = primCalls
          /\ ocrCalls' = ocrCalls
          /\ successful_conversions' = successful_conversions + 1
          /\ failed_conversions' = failed_conversions
          /\ outcomes' = Append(outcomes, [ok |-> TRUE, how |-> "skipped"])
          /\ pc' \in { "loop", "summary" }]_vars

\* a document was skipped over an existing output file
C3_Witness ==
  \E k \in Done : outcomes[k].how = "skipped" /\ TextOf(k).exists

\* C4: when pdftotext meets the success criterion on a document, that step
\* counts the document as successful, and OCR is not invoked on it in the
\* run.
C4_PrimarySuccessNoOcr ==
  /\ [](\A k \in Done :
          (primCalls[k] >= 1 /\ MeetsCriterion(PrimaryOutcomeOf(k))) =>
            outcomes[k].ok /\ ocrCalls[k] = 0)
  /\ [][(pc = "pdftotext" /\ hasPdftotext' = "yes"
         /\ MeetsCriterion(primB'[Content(pdfsDir[pdf_path])])) =>
          /\ NonEmpty(textsDir'[text_path])
          /\ successful_conversions' = successful_conversions + 1
          /\ failed_conversions' = failed_conversions
          /\ ocrCalls' = ocrCalls
          /\ pc' \in { "loop", "summary" }]_vars

\* the batch is over and a document was converted by pdftotext, without OCR
C4_Witness ==
  /\ pc = "summary"
  /\ \E k \in Done :
       /\ outcomes[k] = [ok |-> TRUE, how |-> "pdftotext"]
       /\ primCalls[k] = 1
       /\ ocrCalls[k] = 0

\* C5: a recorded document on which pdftotext was invoked and failed has had
\* convert_pdf_with_ocr invoked exactly once (no document more than once),
\* and the step of pdftotext never ends the process.
C5_PrimaryFailureFallsBackOnce ==
  /\ [](\A k \in DOMAIN ocrCalls :
          /\ ocrCalls[k] <= 1
          /\ (k \in Done /\ primCalls[k] >= 1
              /\ ~MeetsCriterion(PrimaryOutcomeOf(k))) =>
               /\ ocrCalls[k] = 1
               /\ outcomes[k].how \in { "ocr", "none" })
  /\ [][pc = "pdftotext" =>
          /\ pc' # "idle"
          /\ exitStatus' = exitStatus
          /\ ~MeetsCriterion(PrimaryOutcomeOf(i))' => pc' = "ocr"]_vars

\* pdftotext timed out on a document and OCR, attempted once, converted it
C5_Witness ==
  \E k \in Done :
    /\ primCalls[k] = 1
    /\ PrimaryOutcomeOf(k).status = "TimeoutExpired"
    /\ ocrCalls[k] = 1
    /\ outcomes[k].how = "ocr"

\* C6: a step that invokes convert_pdf_with_ocr on a document is taken after
\* pdftotext was invoked on that document, and has ended, in the same run.
C6_OcrAfterPrimary ==
  /\ [](\A k \in DOMAIN ocrCalls : ocrCalls[k] >= 1 => primCalls[k] >= 1)
  /\ [][\A k \in DOMAIN ocrCalls :
          (k \in DOMAIN ocrCalls' /\ ocrCalls'[k] > ocrCalls[k]) =>
            /\ primCalls[k] >= 1
            /\ primCalls'[k] = primCalls[k]
            /\ pc = "ocr"]_vars

\* OCR was attempted on a document after pdftotext
C6_Witness ==
  \E k \in DOMAIN ocrCalls : ocrCalls[k] = 1 /\ primCalls[k] = 1

\* C7: the two counters add up to the number of descriptors the loop is
\* through with, and to the number listed once the summary is reached; a
\* step adds one to at most one of them.
C7_CountsAddUp ==
  /\ [](/\ (pc = "loop" =>
              /\ i < Len(pdfs)
              /\ successful_conversions + failed_conversions = i)
        /\ (pc \in { "convert", "pdftotext", "ocr", "ocr_raster",
                    "ocr_pages" } =>
              successful_conversions + failed_conversions = i - 1)
        /\ (pc = "summary" =>
              successful_conversions + failed_conversions = Len(pdfs))
        /\ (Finished /\ pdfs # <<>> =>
              successful_conversions + failed_conversions = Len(pdfs))
        /\ successful_conversions =
             Cardinality({ k \in Done : outcomes[k].ok })
        /\ failed_conversions =
             Cardinality({ k \in Done : ~outcomes[k].ok }))
  /\ [][InRun =>
          \/ UNCHANGED counters
          \/ /\ successful_conversions' = successful_conversions + 1
             /\ failed_conversions' = failed_conversions
          \/ /\ successful_conversions' = successful_conversions
             /\ failed_conversions' = failed_conversions + 1]_vars

\* a summary of a batch of two with one success and one failure
C7_Witness ==
  /\ pc = "summary"
  /\ Len(pdfs) = 2
  /\ successful_conversions = 1
  /\ failed_conversions = 1

\* C8: a finished run has a non-zero exit status when the listing failed or
\* a document failed, and exit status 0 when at least one document was
\* listed and all of them were successful.
C8_ExitStatus ==
  Finished =>
    /\ (listB = "RequestException" \/ failed_conversions > 0) =>
         exitStatus > 0
    /\ (Len(pdfs) >= 1 /\ successful_conversions = Len(pdfs)) =>
         exitStatus = 0

\* C9: once the listing call has failed, the process is over with a
\* non-zero exit status, and nothing was listed, fetched, extracted,
\* written or committed.
C9_ListingFailureFatal ==
  (run >= 1 /\ listB = "RequestException") =>
    /\ pc = "idle"
    /\ exitStatus > 0
    /\ pdfs = <<>>
    /\ outcomes = <<>>
    /\ fetches = <<>> /\ primCalls = <<>> /\ ocrCalls = <<>>
    /\ gitOps = <<>>
    /\ successful_conversions = 0 /\ failed_conversions = 0
    /\ \A n \in PdfNames : ~pdfsDir[n].exists
    /\ \A n \in TextNames : ~textsDir[n].exists

\* a run ended on a failed listing of a tree that holds a PDF
C9_Witness ==
  /\ Finished
  /\ listB = "RequestException"
  /\ ListPdfs(tree) # <<>>

\* C10: a fetch that fails records the document as failed in the same step
\* with no extractor invoked, the loop going on to the next descriptor; no
\* descriptor is fetched twice in a run, and a document recorded as failed
\* by its download has had no extractor invoked; when the summary is reached
\* every descriptor has been recorded.
C10_DownloadFailureIsolated ==
  /\ [](/\ \A k \in DOMAIN fetches : fetches[k] <= 1
        /\ \A k \in Done :
             outcomes[k].how = "download" =>
               /\ ~outcomes[k].ok
               /\ fetches[k] = 1
               /\ primCalls[k] = 0
               /\ ocrCalls[k] = 0
        /\ (pc = "summary" \/ (Finished /\ pdfs # <<>>) =>
              Len(outcomes) = Len(pdfs)))
  /\ [][(pc = "loop" /\ fetches' # fetches
         /\ dlB'[Remote(pdfs[i + 1].url)] # "ok") =>
          /\ failed_conversions' = failed_conversions + 1
          /\ successful_conversions' = successful_conversions
          /\ outcomes' = Append(outcomes, [ok |-> FALSE, how |-> "download"])
          /\ primCalls' = primCalls
          /\ ocrCalls' = ocrCalls
          /\ textsDir' = textsDir
          /\ pc' = IF i + 1 < Len(pdfs) THEN "loop" ELSE "summary"]_vars

\* a download failed and the next descriptor was converted
C10_Witness ==
  \E k \in Done :
    /\ outcomes[k].how = "download"
    /\ k + 1 \in Done
    /\ outcomes[k + 1].how \in { "pdftotext", "ocr" }

\* commit_texts_if_requested went past its two tests and a git command
\* failed, or could not be started at all
PersisterFailed ==
  /\ commitCalls = 1
  /\ COMMIT_OUTPUTS
  /\ GITHUB_TOKEN
  /\ \/ gitOps = <<>>
     \/ gitOps[Len(gitOps)] \in { "config", "add", "commit", "push" }

\* C11: git commands are run only by a process that is through with its
\* whole batch, counted at least one success and has both COMMIT_OUTPUTS
\* and GITHUB_TOKEN set; commit_texts_if_requested is invoked at most once,
\* and not at all when no document was successful.
C11_PersisterGating ==
  /\ [](/\ gitOps # <<>> =>
             /\ Finished
             /\ Len(outcomes) = Len(pdfs)
             /\ successful_conversions > 0
             /\ COMMIT_OUTPUTS
             /\ GITHUB_TOKEN
        /\ commitCalls > 0 =>
             /\ commitCalls = 1
             /\ Finished
             /\ Len(outcomes) = Len(pdfs)
             /\ successful_conversions > 0
        /\ successful_conversions = 0 => commitCalls = 0 /\ gitOps = <<>>)
  /\ [][(pc = "summary" /\ successful_conversions = 0) =>
          /\ commitCalls' = 0
          /\ gitOps' = <<>>
          /\ UNCHANGED config]_vars

\* a batch with a success and a failure was pushed
C11_Witness ==
  /\ Finished
  /\ successful_conversions > 0
  /\ failed_conversions > 0
  /\ Len(gitOps) > 0
  /\ gitOps[Len(gitOps)] = "pushed"

\* C12: a run whose commit_texts_if_requested failed ends with the exit
\* status its conversion counts determine, zero iff no document failed.
C12_PersisterFailureKeepsStatus ==
  (Finished /\ PersisterFailed) => exitStatus = ExitCode

\* the PDF a text token was made from
TokContent(t) == [src |-> t.src, complete |-> t.complete]
\* the PDF descriptor k stands for on disk
PdfOf(k) == Content(pdfsDir[pdfs[k].name])
OcrStates == { "ocr", "ocr_raster", "ocr_pages" }

\* C13: a non-empty file of ./texts that holds OCR output holds the output
\* of a whole pass, every block of every rasterized page; in particular
\* after convert_pdf_with_ocr returned failure.
C13_OcrWriteAtomic ==
  \A n \in TextNames :
    (NonEmpty(textsDir[n]) /\ textsDir[n].data[1].by = "ocr") =>
      LET c == TokContent(textsDir[n].data[1])
      IN  textsDir[n].data = OcrPass(c, ocrB[c].pages)

\* C14: when an OCR library cannot be imported, the step that enters
\* convert_pdf_with_ocr rasterizes and recognizes nothing, leaves ./texts
\* alone, records the document as failed and goes on to the next descriptor
\* (or to the summary after the last); no pass is ever under way and no
\* file of ./texts holds OCR output.
C14_OcrUnavailableFailsAtOnce ==
  /\ [](hasOcr = "no" =>
          /\ pc \notin { "ocr_raster", "ocr_pages" }
          /\ \A c \in Contents : ocrB[c] = UnsetOcr
          /\ \A n \in TextNames :
               \A q \in 1..Size(textsDir[n]) : textsDir[n].data[q].by # "ocr"
          /\ \A k \in Done : ocrCalls[k] = 1 =>
               outcomes[k] = [ok |-> FALSE, how |-> "none"])
  /\ [][(pc = "ocr" /\ hasOcr' = "no") =>
          /\ textsDir' = textsDir
          /\ ocrB' = ocrB
          /\ UNCHANGED ocrLocals
          /\ failed_conversions' = failed_conversions + 1
          /\ successful_conversions' = successful_conversions
          /\ outcomes' = Append(outcomes, [ok |-> FALSE, how |-> "none"])
          /\ exitStatus' = exitStatus
          /\ pc' = IF i < Len(pdfs) THEN "loop" ELSE "summary"]_vars

\* OCR could not be imported for a document, which failed, and the next
\* descriptor was processed
C14_Witness ==
  /\ hasOcr = "no"
  /\ \E k \in Done :
       /\ ocrCalls[k] = 1
       /\ ~outcomes[k].ok
       /\ k + 1 \in Done

\* C15: when a file is at pdfs/<name> as download_pdf is called, the step
\* fetches nothing, leaves ./pdfs as it is and hands that path to the
\* conversion; and a step that fetches is one that found no file there.
C15_DownloaderIdempotent ==
  /\ [][(pc = "loop" /\ pdfsDir[pdfs[i + 1].name].exists) =>
          /\ pdfsDir' = pdfsDir
          /\ fetches' = fetches
          /\ dlB' = dlB
          /\ pdf_path' = pdfs[i + 1].name
          /\ UNCHANGED counters
          /\ pc' = "convert"]_vars
  /\ [][(pc = "loop" /\ fetches' # fetches) =>
          /\ ~pdfsDir[pdfs[i + 1].name].exists
          /\ fetches' = Bump(fetches, i + 1)]_vars

\* a later run took the partial PDF an interrupted download had left, did
\* not fetch, and ran pdftotext on it
C15_Witness ==
  /\ run = 2
  /\ \E k \in DOMAIN fetches :
       /\ fetches[k] = 0
       /\ pdfsDir[pdfs[k].name].exists
       /\ ~pdfsDir[pdfs[k].name].complete
       /\ primCalls[k] = 1

\* C16 as stated: no step changes a file that exists in ./texts.
C16_NeverOverwrites ==
  [][\A n \in TextNames :
       textsDir[n].exists => textsDir'[n] = textsDir[n]]_vars

\* C16 (amended): a file found at the output path by convert_pdf_to_text is
\* not written by that call; pdftotext is invoked only when no file is at
\* the output path; and OCR runs, and writes, only when the output path
\* holds no file or the file the failed pdftotext attempt of the same call
\* left there.  Only the extractor at work writes to ./texts, and only to
\* the output path of the document at hand.
C16_OnlyExtractorLeftoverOverwritten ==
  /\ [](/\ pc = "pdftotext" => ~textsDir[text_path].exists
        /\ pc \in OcrStates =>
             textsDir[text_path] =
               PdftotextLeaves(PrimaryOutcomeOf(i), PdfOf(i), NoText))
  /\ [][(pc = "convert" /\ textsDir[text_path].exists) =>
          textsDir' = textsDir /\ pc' \notin { "pdftotext" } \cup OcrStates]_vars
  /\ [][\A n \in TextNames :
          textsDir'[n] # textsDir[n] =>
            /\ n = text_path
            /\ pc \in { "pdftotext", "ocr_pages" }
            /\ pc = "pdftotext" => ~textsDir[n].exists]_vars

\* OCR converted a document over the file a failed pdftotext had left
C16_Witness ==
  \E k \in Done :
    /\ outcomes[k].how = "ocr"
    /\ PrimaryOutcomeOf(k).out \in { "empty", "partial" }
    /\ NonEmpty(TextOf(k))
    /\ TextOf(k).data[1].by = "ocr"

\* C17: during a pass the blocks recognized so far are those of pages 1, 2,
\* ... in that order, each a marker of its page followed by the text of
\* that page, and a step recognizes the next page only; ./texts is written
\* only once every rasterized page is recognized; the output of a document
\* converted by OCR is the n blocks of its n pages in order, each preceded
\* by its marker, and the output of a document converted by pdftotext holds
\* no marker.
C17_OcrOutputFormat ==
  /\ [](/\ pc = "ocr_pages" =>
             /\ Len(full_text) <= images
             /\ \A p \in 1..Len(full_text) :
                  /\ Len(full_text[p]) = 2
                  /\ full_text[p][1].marker = p
                  /\ full_text[p][2].marker = 0
                  /\ full_text[p][2].page = p
        /\ \A k \in Done :
             /\ outcomes[k].how = "ocr" =>
                  LET n == ocrB[PdfOf(k)].pages
                      d == TextOf(k).data
                  IN  /\ n >= 1
                      /\ Len(d) = 2 * n
                      /\ \A p \in 1..n :
                           /\ d[2 * p - 1].by = "ocr"
                           /\ d[2 * p - 1].marker = p
                           /\ d[2 * p].marker = 0
                           /\ d[2 * p].page = p
                           /\ TokContent(d[2 * p]) = PdfOf(k)
             /\ outcomes[k].how = "pdftotext" =>
                  /\ NonEmpty(TextOf(k))
                  /\ \A q \in 1..Size(TextOf(k)) :
                       /\ TextOf(k).data[q].by = "pdftotext"
                       /\ TextOf(k).data[q].marker = 0)
  /\ [][(pc = "ocr_pages" /\ full_text' # full_text) =>
          /\ Len(full_text') = Len(full_text) + 1
          /\ SubSeq(full_text', 1, Len(full_text)) = full_text
          /\ full_text'[Len(full_text')][1].marker = Len(full_text')
          /\ textsDir' = textsDir]_vars
  /\ [][(pc \in OcrStates /\ textsDir' # textsDir) =>
          /\ pc = "ocr_pages"
          /\ Len(full_text) = images]_vars

\* a document of two pages was converted by OCR
C17_Witness ==
  \E k \in Done :
    /\ outcomes[k].how = "ocr"
    /\ ocrB[PdfOf(k)].pages = 2
    /\ Size(TextOf(k)) = 4

\* the file f of ./texts is the output of an extraction attempt that met
\* the success criterion
Usable(f) ==
  /\ NonEmpty(f)
  /\ LET c == TokContent(f.data[1])
     IN  \/ /\ f.data[1].by = "pdftotext"
            /\ primB[c].status = "rc0"
            /\ f = PdftotextLeaves(primB[c], c, NoText)
         \/ /\ f.data[1].by = "ocr"
            /\ ocrB[c].failPage = 0
            /\ ocrB[c].write = "ok"
            /\ f.data = OcrPass(c, ocrB[c].pages)

\* C18: ./texts starting empty and written by the pipeline only, when a
\* run has ended every document it counted as successful has at its output
\* path a non-empty file made by an extraction attempt that met the success
\* criterion.
C18_SuccessImpliesUsableOutput ==
  (Finished /\ pdfs # <<>>) =>
    \A k \in Done : outcomes[k].ok => Usable(TextOf(k))

\* C19: a step whose fetch fails leaves no file at pdfs/<name>.
C19_FailedDownloadLeavesNoFile ==
  [][(pc = "loop" /\ fetches' # fetches
      /\ dlB'[Remote(pdfs[i + 1].url)] # "ok") =>
       ~pdfsDir'[pdfs[i + 1].name].exists]_vars

\* descriptors j and k of the batch, j the earlier, collide
SameName(j, k) == j < k /\ pdfs[j].name = pdfs[k].name
SameStem(j, k) == j < k /\ pdfs[j].name.stem = pdfs[k].name.stem

\* C20 as stated: of two descriptors with the same stem, once the earlier
\* has left an output file the later is counted successful by the skip
\* rule, and the counts add up.
C20_StemCollision ==
  /\ \A j, k \in Done :
       (SameStem(j, k) /\ outcomes[j].ok) =>
         outcomes[k] = [ok |-> TRUE, how |-> "skipped"]
  /\ pc = "summary" =>
       successful_conversions + failed_conversions = Len(pdfs)

\* C20 (amended): of two descriptors with the same name, the later is
\* fetched only if the earlier was fetched and left no file; of two with
\* the same stem, the later, when it finds a file at the shared output path,
\* is counted successful by the skip rule with no extractor invoked on it;
\* after a successful earlier one the later is skipped unless its own
\* download fails, and it is counted as failed only by its own download or
\* after a failed earlier one; both are counted, so the counts add up.
C20_CollisionSkipsOrFailsDownload ==
  /\ [](/\ \A j, k \in DOMAIN fetches :
             /\ (SameName(j, k) /\ fetches[k] = 1) =>
                  /\ fetches[j] = 1
                  /\ dlB[Remote(pdfs[j].url)] = "RequestException"
             /\ (SameStem(j, k) /\ k \in Done) =>
                  /\ outcomes[j].ok =>
                       /\ outcomes[k].how \in { "download", "skipped" }
                       /\ primCalls[k] = 0
                       /\ ocrCalls[k] = 0
                  /\ ~outcomes[k].ok =>
                       outcomes[k].how = "download" \/ ~outcomes[j].ok
        /\ pc = "summary" =>
             /\ Len(outcomes) = Len(pdfs)
             /\ successful_conversions + failed_conversions = Len(pdfs))
  /\ [][(/\ pc = "convert"
         /\ \E j \in 1..(i - 1) : SameStem(j, i)
         /\ textsDir[TextPath(pdfs[i].name)].exists) =>
          /\ outcomes' = Append(outcomes, [ok |-> TRUE, how |-> "skipped"])
          /\ successful_conversions' = successful_conversions + 1
          /\ failed_conversions' = failed_conversions
          /\ textsDir' = textsDir
          /\ primCalls' = primCalls
          /\ ocrCalls' = ocrCalls]_vars

\* in a first run, a.PDF was downloaded after a.pdf had been converted, and
\* was skipped over the output of a.pdf
C20_Witness ==
  /\ run = 1
  /\ \E j, k \in Done :
       /\ SameStem(j, k)
       /\ pdfs[j].name # pdfs[k].name
       /\ outcomes[j].how \in { "pdftotext", "ocr" }
       /\ fetches[k] = 1
       /\ outcomes[k].how = "skipped"
====
